---- MODULE Spec2Model ----
(***************************************************************************)
(* Model of the node-keystone-server entity store (src/src/game.ts, class  *)
(* Game) together with the Player class it stores (src/unnamed/part_001).  *)
(*                                                                         *)
(* The store is three collections: the players Map (insertion ordered),    *)
(* the playerNames Set and the lastKnownPositions Map.  Every public       *)
(* method of Game is one action.  JavaScript runs each method to its end   *)
(* before the next event is handled, so a method is one atomic step.       *)
(*                                                                         *)
(* An optional value (an omitted argument, the name field of a Player that *)
(* was never named, a null result) is a sequence of length 0 or 1.         *)
(*                                                                         *)
(* The second half models the WebSocket server around the store            *)
(* (src/src/server.ts) and the wire codec (src/unnamed/part_000): the      *)
(* clients Map, the sockets with their readyState, and one action per      *)
(* event handler (connection, message, close, error, the tick timer).      *)
(***************************************************************************)
EXTENDS Integers, Sequences, FiniteSets, TLC

\* ------------------------------------------------------------------ bounds
\* how many non-empty display names the calls of Spec draw from
MaxNames == 2
\* the largest x coordinate the calls of Spec draw from
MaxCoord == 1
\* how many connections the server accepts in SpecServer
MaxSessions == 2
\* how many connections the server accepts in SpecFanout
MaxFanout == MaxSessions + 1
\* how far from 0, from half the wrap and from the wrap the timecodes of
\* SpecCodec lie
MaxSkew == 5
\* how many times the clock of SpecCodec wraps while the process runs
MaxWraps == 1

NamePool == <<"a", "b", "c", "d">>

\* display names: the empty string and MaxNames others
Names == {""} \cup {NamePool[i] : i \in 1..MaxNames}

\* player ids (uuid strings in the server)
Ids == {"p1", "p2"}

\* x coordinates of Spec
Coords == 0..MaxCoord

\* coordinates and rotations of SpecPos.  The store only copies them and
\* compares them with !==, so two values of each show every outcome of a
\* comparison.
PosCoords == {0, 1}
Rots == {0, 90}

\* server.ts:67  uuidv4(): every connection gets an id that was never used
\* before; the k-th connection gets SessionPool[k]
SessionPool == <<"p1", "p2", "p3", "p4">>
Sessions == {SessionPool[i] : i \in 1..MaxFanout}

\* part_000:20-22  getTimecode(): the values the clock shows
Times == {0, 1}

NoId == "none"
None == <<>>
Some(v) == <<v>>
Opt(S) == {None} \cup {Some(v) : v \in S}

VARIABLES
    players,            \* Game.players: sequence of Player objects, in Map insertion order
    playerNames,        \* Game.playerNames: set of claimed names
    lastKnownPositions, \* Game.lastKnownPositions: id -> [x, z, rot]
    last,               \* history: the latest call, its arguments and its result
    prev,               \* history: the call before the latest one, in brief
    clients,            \* server.ts clients: sequence of player ids, in Map insertion order
    sockets,            \* the WebSocket of each connection made so far
    crashed,            \* an exception left an event handler uncaught: the process is gone
    sent,               \* history: the frames the latest handler sent, in order
    inbox,              \* history: per connection, what it has been sent so far, in brief
    event,              \* history: the latest event handler
    codec               \* a call of a codec function on its own: arguments, then result

vars == <<players, playerNames, lastKnownPositions, last, prev,
          clients, sockets, crashed, sent, inbox, event, codec>>
store == <<players, playerNames, lastKnownPositions>>
server == <<clients, sockets, crashed, sent, inbox, event>>

\* ------------------------------------------------------------ Player class
\* new Player(id, x, y, z, rot); the class declares no name field, so name
\* reads as undefined until Game.setPlayerName assigns it.
Player(id, initialX, initialY, initialZ, initialRot) ==
    [id |-> id, x |-> initialX, y |-> initialY, z |-> initialZ,
     rot |-> initialRot, name |-> None]

\* Player.getState(): the PlayerState snapshot { id, x, y, z, rot }
getState(p) == [id |-> p.id, x |-> p.x, y |-> p.y, z |-> p.z, rot |-> p.rot]

\* JavaScript truthiness of player.name: undefined and "" are falsy
Truthy(name) == name /= None /\ name[1] /= ""

\* a ?? b
Coalesce(a, b) == IF a = None THEN b ELSE a[1]

\* ------------------------------------------------------- Map<string, ...>
\* players: a Map iterates in insertion order; set on an existing key keeps
\* its place, delete removes it.
MapHas(m, id) == \E i \in 1..Len(m) : m[i].id = id
MapIndex(m, id) == CHOOSE i \in 1..Len(m) : m[i].id = id
MapGet(m, id) == m[MapIndex(m, id)]
MapKeys(m) == {m[i].id : i \in 1..Len(m)}
MapReplace(m, p) == [m EXCEPT ![MapIndex(m, p.id)] = p]
MapSet(m, p) == IF MapHas(m, p.id) THEN MapReplace(m, p) ELSE Append(m, p)
MapDelete_Keep(m, id) == m
MapDelete(m, id) ==
    LET k == MapIndex(m, id)
    IN [i \in 1..(Len(m) - 1) |-> IF i < k THEN m[i] ELSE m[i + 1]]

\* lastKnownPositions: only get / set / delete are used, order is not observed
EmptyPositions == [k \in {} |-> [x |-> 0, z |-> 0, rot |-> 0]]
PosSet(m, id, v) == [k \in DOMAIN m \cup {id} |-> IF k = id THEN v ELSE m[k]]
\* the variant deletes nothing
PosDelete_Keep(m, id) == m
PosDelete(m, id) == [k \in DOMAIN m \ {id} |-> m[k]]

\* ---------------------------------------------------------------- history
\* last: the latest call.  op and id name it; name, x, z, rot are the
\* arguments of setPlayerName and updatePlayerPosition (addPlayer's optional
\* arguments show in the state it returns).  live, claimed and held are what
\* held just before the call: id was live, name was in playerNames
\* (setPlayerName), the name field of player id (setPlayerName,
\* removePlayer).  ok and states are the result: the boolean returned (or
\* "not null"), and the PlayerStates returned.
Call(op, id, name, x, z, rot, ok, states) ==
    [op |-> op, id |-> id, name |-> name, x |-> x, z |-> z, rot |-> rot,
     live |-> MapHas(players, id),
     claimed |-> (name /= None /\ name[1] \in playerNames),
     held |-> IF op \in {"setPlayerName", "removePlayer"} /\ MapHas(players, id)
              THEN MapGet(players, id).name ELSE None,
     ok |-> ok, states |-> states]

NoCall ==
    [op |-> "constructor", id |-> NoId, name |-> None, x |-> None, z |-> None,
     rot |-> None, live |-> FALSE, claimed |-> FALSE, held |-> None,
     ok |-> TRUE, states |-> <<>>]

\* prev: the call before the latest one, kept when the two calls bear on the
\* same thing (removePlayer twice on one id, getUpdatedPlayerStates twice,
\* or a setPlayerName asking for the name the earlier call asked for or could
\* release), else NoPrev
Brief(c) ==
    [op |-> c.op, id |-> c.id, name |-> c.name, live |-> c.live,
     claimed |-> c.claimed, held |-> c.held, ok |-> c.ok,
     count |-> Len(c.states)]

NoPrev == Brief(NoCall)

Related(c1, c2) ==
    \/ /\ c1.op = c2.op /\ c1.id = c2.id
       /\ c1.op \in {"removePlayer", "getUpdatedPlayerStates"}
    \/ /\ c2.op = "setPlayerName"
       /\ c1.op \in {"setPlayerName", "removePlayer"}
       /\ c2.name \in {c1.name, c1.held} \ {None}

\* a method returns: the call becomes the latest one
Returns(c) ==
    /\ last' = c
    /\ prev' = IF Related(last, c) THEN Brief(last) ELSE NoPrev

\* ---------------------------------------------------- Game.setPlayerName
\* game.ts:72  this.playerNames.has(name)
NameTaken_Never(name) == FALSE
NameTaken_Always(name) == TRUE
NameTaken(name) == name \in playerNames

\* game.ts:76-79  if (player.name) this.playerNames.delete(player.name)
ReleaseName(player) ==
    IF Truthy(player.name) THEN playerNames \ {player.name[1]} ELSE playerNames

\* the variant releases the player's previous name before it tests whether
\* the new one is taken
setPlayerName_ReleaseFirst(playerId, name) ==
    IF ~MapHas(players, playerId)
    THEN /\ UNCHANGED store
         /\ Returns(Call("setPlayerName", playerId, Some(name), None, None, None,
                         FALSE, <<>>))
    ELSE LET player == MapGet(players, playerId) IN
         IF name \in ReleaseName(player)
         THEN /\ playerNames' = ReleaseName(player)
              /\ players' = MapReplace(players, [player EXCEPT !.name = None])
              /\ UNCHANGED lastKnownPositions
              /\ Returns(Call("setPlayerName", playerId, Some(name), None, None,
                              None, FALSE, <<>>))
         ELSE /\ playerNames' = ReleaseName(player) \cup {name}
              /\ players' = MapReplace(players, [player EXCEPT !.name = Some(name)])
              /\ UNCHANGED lastKnownPositions
              /\ Returns(Call("setPlayerName", playerId, Some(name), None, None,
                              None, TRUE, <<>>))
setPlayerName(playerId, name) ==
    IF ~MapHas(players, playerId)
    THEN /\ UNCHANGED store
         /\ Returns(Call("setPlayerName", playerId, Some(name), None, None, None,
                         FALSE, <<>>))
    ELSE LET player == MapGet(players, playerId) IN
         IF NameTaken(name)
         THEN /\ UNCHANGED store
              /\ Returns(Call("setPlayerName", playerId, Some(name), None, None,
                              None, FALSE, <<>>))
         ELSE /\ playerNames' = ReleaseName(player) \cup {name}
              /\ players' = MapReplace(players, [player EXCEPT !.name = Some(name)])
              /\ UNCHANGED lastKnownPositions
              /\ Returns(Call("setPlayerName", playerId, Some(name), None, None,
                              None, TRUE, <<>>))

\* server.ts:114  setNameMsg.name && typeof setNameMsg.name === 'string':
\* the set_name handler passes only a non-empty string on to setPlayerName
NameFormatOk(name) == name /= ""

\* server.ts:114-131  the handler answers name_accepted when the format check
\* passes and setPlayerName returned true (nameSet), name_rejected otherwise
NameAccepted(name, nameSet) == NameFormatOk(name) /\ nameSet

\* -------------------------------------------------------- Game.addPlayer
\* game.ts:26-28  generateRandomCoordinate(): an integer in -50..50, of which
\* the model draws two
RandomCoordinates == {0, 1}

\* initialX ?? this.generateRandomCoordinate(): the values the start
\* coordinate can take
StartCoordinates(initial) ==
    IF initial = None THEN RandomCoordinates ELSE {initial[1]}

\* game.ts:97  this.players.has(playerId)
AlreadyExists_Never(playerId) == FALSE
AlreadyExists(playerId) == MapHas(players, playerId)

addPlayer(playerId, initialX, initialZ, initialRot) ==
    IF AlreadyExists(playerId)
    THEN /\ UNCHANGED store
         /\ Returns(Call("addPlayer", playerId, None, None, None, None, TRUE,
                         <<getState(MapGet(players, playerId))>>))
    ELSE \E x \in StartCoordinates(initialX), z \in StartCoordinates(initialZ) :
         LET rot == Coalesce(initialRot, 0)
             player == Player(playerId, x, 1, z, rot)
         IN /\ players' = MapSet(players, player)
            /\ lastKnownPositions' =
                   PosSet(lastKnownPositions, playerId, [x |-> x, z |-> z, rot |-> rot])
            /\ UNCHANGED playerNames
            /\ Returns(Call("addPlayer", playerId, None, None, None, None, TRUE,
                            <<getState(player)>>))

\* ----------------------------------------------------- Game.removePlayer
\* game.ts:121-124  if (player.name) this.playerNames.delete(player.name)
ReleaseNameOnRemove(player) ==
    IF Truthy(player.name) THEN playerNames \ {player.name[1]} ELSE playerNames

removePlayer(playerId) ==
    IF MapHas(players, playerId)
    THEN LET player == MapGet(players, playerId) IN
         /\ playerNames' = ReleaseNameOnRemove(player)
         /\ players' = MapDelete(players, playerId)
         /\ lastKnownPositions' = PosDelete(lastKnownPositions, playerId)
         /\ Returns(Call("removePlayer", playerId, None, None, None, None, TRUE, <<>>))
    ELSE /\ UNCHANGED store
         /\ Returns(Call("removePlayer", playerId, None, None, None, None, FALSE, <<>>))

\* --------------------------------------------- Game.updatePlayerPosition
\* game.ts:145-147  the fields the method assigns; Player has no setter for y
Moved_RotReset(player, newX, newZ, newRot) ==
    [player EXCEPT !.x = newX, !.z = newZ, !.rot = Coalesce(newRot, 0)]
Moved(player, newX, newZ, newRot) ==
    [player EXCEPT !.x = newX, !.z = newZ, !.rot = Coalesce(newRot, player.rot)]

\* a variant that creates the player when the id is unknown
updatePlayerPosition_Upsert(playerId, newX, newZ, newRot) ==
    LET player == IF MapHas(players, playerId)
                  THEN Moved(MapGet(players, playerId), newX, newZ, newRot)
                  ELSE Player(playerId, newX, 1, newZ, Coalesce(newRot, 0))
    IN /\ players' = MapSet(players, player)
       /\ UNCHANGED <<playerNames, lastKnownPositions>>
       /\ Returns(Call("updatePlayerPosition", playerId, None, Some(newX),
                       Some(newZ), newRot, TRUE, <<getState(player)>>))

updatePlayerPosition(playerId, newX, newZ, newRot) ==
    IF MapHas(players, playerId)
    THEN LET player == Moved(MapGet(players, playerId), newX, newZ, newRot) IN
         /\ players' = MapReplace(players, player)
         /\ UNCHANGED <<playerNames, lastKnownPositions>>
         /\ Returns(Call("updatePlayerPosition", playerId, None, Some(newX),
                         Some(newZ), newRot, TRUE, <<getState(player)>>))
    ELSE /\ UNCHANGED store
         /\ Returns(Call("updatePlayerPosition", playerId, None, Some(newX),
                         Some(newZ), newRot, FALSE, <<>>))

\* ------------------------------------------- Game.getUpdatedPlayerStates
\* game.ts:208-211  the test that makes a player count as updated
Changed_NoZ(player, known) ==
    \/ player.id \notin DOMAIN known
    \/ player.x /= known[player.id].x
    \/ player.rot /= known[player.id].rot
Changed(player, known) ==
    \/ player.id \notin DOMAIN known
    \/ player.x /= known[player.id].x
    \/ player.z /= known[player.id].z
    \/ player.rot /= known[player.id].rot

\* game.ts:213  the snapshot the scan stores for an updated player
Snapshot_NoRot(player) == [x |-> player.x, z |-> player.z, rot |-> 0]
Snapshot(player) == [x |-> player.x, z |-> player.z, rot |-> player.rot]

\* the for..of loop over this.players, from entry i on: the list pushed so
\* far and the lastKnownPositions map as the loop has left it
RECURSIVE ScanPlayers(_, _, _)
ScanPlayers(i, updatedPlayers, known) ==
    IF i > Len(players)
    THEN [updatedPlayers |-> updatedPlayers, known |-> known]
    ELSE LET player == players[i] IN
         IF Changed(player, known)
         THEN ScanPlayers(i + 1, Append(updatedPlayers, getState(player)),
                          PosSet(known, player.id, Snapshot(player)))
         ELSE ScanPlayers(i + 1, updatedPlayers, known)

UpdatedPlayerStates == ScanPlayers(1, <<>>, lastKnownPositions)

getUpdatedPlayerStates ==
    /\ lastKnownPositions' = UpdatedPlayerStates.known
    /\ UNCHANGED <<players, playerNames>>
    /\ Returns(Call("getUpdatedPlayerStates", NoId, None, None, None, None, TRUE,
                   UpdatedPlayerStates.updatedPlayers))

\* ------------------------------------------------------------ Game.update
\* the store's own 500 ms timer (startUpdateLoop): runs the delta scan and
\* drops its result
update ==
    /\ lastKnownPositions' = UpdatedPlayerStates.known
    /\ UNCHANGED <<players, playerNames>>
    /\ Returns(Call("update", NoId, None, None, None, None, TRUE, <<>>))

\* ---------------------------------------------- Game.getAllPlayerStates
\* game.ts:191-193  the state of every player, in Map order
getAllPlayerStates == [i \in 1..Len(players) |-> getState(players[i])]

\* =================================================== the wire codec
\* part_000:13  const TIMECODE_WRAP = 2**24
TIMECODE_WRAP == 2^24

\* part_000:20-22  getTimecode: elapsed is Date.now() - SERVER_START_TIME, the
\* milliseconds the process has run
getTimecode(elapsed) == elapsed % TIMECODE_WRAP

\* part_000:31-43  timecodeDistance.  The variants: no correction at all, and
\* no correction of a difference below -halfWrap
timecodeDistance_Raw(newer, older) == newer - older
timecodeDistance_OneSided(newer, older) ==
    LET diff == newer - older
        halfWrap == TIMECODE_WRAP \div 2
    IN IF diff > halfWrap THEN diff - TIMECODE_WRAP ELSE diff
timecodeDistance(newer, older) ==
    LET diff == newer - older
        halfWrap == TIMECODE_WRAP \div 2
    IN IF diff > halfWrap THEN diff - TIMECODE_WRAP
       ELSE IF diff < -halfWrap THEN diff + TIMECODE_WRAP
       ELSE diff

\* Math.abs
Abs(n) == IF n < 0 THEN -n ELSE n

\* part_000:50-52  getMessageAge, called when the process has run for
\* elapsed milliseconds
getMessageAge(timecode, elapsed) ==
    Abs(timecodeDistance(getTimecode(elapsed), timecode))

\* part_000:85-96  a server message before encoding; a field the object does
\* not have is None
ServerMessage(type, playerId, playerStates, reason) ==
    [type |-> type, playerId |-> playerId, players |-> playerStates,
     reason |-> reason, t |-> None]

\* part_000:88  message.t || getTimecode(): a number that is 0 is falsy
Stamp(t, now) == IF t /= None /\ t[1] /= 0 THEN t[1] ELSE now

\* part_000:85-96  encodeServerMessage: the object JSON.stringify (or msgpack)
\* writes, which is the message with its t stamped; now is what getTimecode()
\* returns
encodeServerMessage(message, now) == [message EXCEPT !.t = Stamp(message.t, now)]

\* a JSON value as the handler tests it: its typeof and its value
Num(n) == [typeof |-> "number", value |-> n]
Str(st) == [typeof |-> "string", value |-> st]

\* an inbound frame.  shape: "text" (the ws message is not a Buffer),
\* "garbage" (JSON.parse throws), "scalar" (parses to a value that is not an
\* object with a type key) or "object"; for an object, type is its type key
\* and x, z, rot, name, t are its other keys, None when absent
Frame(shape, type, x, z, rot, name, t) ==
    [shape |-> shape, type |-> type, x |-> x, z |-> z, rot |-> rot,
     name |-> name, t |-> t]

\* part_000:98-130  decodeClientMessage: null (None) when parsing throws or
\* the value is not an object with a type key; else the object, with t
\* stamped when it has none
decodeClientMessage(data, now) ==
    IF data.shape = "object"
    THEN Some([data EXCEPT !.t = IF data.t = None THEN Some(now) ELSE data.t])
    ELSE None

\* ======================================================== server.ts
\* server.ts:65-69  the socket handed to the connection handler: open, and
\* neither its error nor its close event has been emitted
Socket == [readyState |-> "OPEN", error |-> FALSE, close |-> FALSE]

\* ws.readyState === WebSocket.OPEN
IsOpen_Any(socks, id) == id \in DOMAIN socks
IsOpen(socks, id) == id \in DOMAIN socks /\ socks[id].readyState = "OPEN"

\* the clients Map: has / set of a new key / delete
ClientsHas(cs, id) == \E i \in 1..Len(cs) : cs[i] = id
ClientsSet(cs, id) == IF ClientsHas(cs, id) THEN cs ELSE Append(cs, id)
ClientsDelete_Keep(cs, id) == cs
ClientsDelete(cs, id) == SelectSeq(cs, LAMBDA k : k /= id)

\* one call of ws.send: the sink, the data, and whether the call sits in a
\* try/catch
Attempt(to, data, caught) == [to |-> to, data |-> data, caught |-> caught]

\* server.ts:29-33  clients.forEach(ws => if (ws.readyState === OPEN)
\* ws.send(encodedMessage)): the send calls of the loop, in Map order
RECURSIVE ForEachOpen(_, _, _, _)
ForEachOpen(cs, socks, skip, data) ==
    IF cs = <<>> THEN <<>>
    ELSE LET rest == ForEachOpen(Tail(cs), socks, skip, data)
         IN IF Head(cs) /= skip /\ IsOpen(socks, Head(cs))
            THEN <<Attempt(Head(cs), data, FALSE)>> \o rest
            ELSE rest

\* server.ts:27-34  broadcast(message): encodes once, then the loop
broadcast(cs, socks, message, now) ==
    ForEachOpen(cs, socks, NoId, encodeServerMessage(message, now))

\* server.ts:42-63  sendToPlayer(playerId, message): nothing for an id that is
\* not in clients or whose socket is not open; else one send inside try/catch.
\* The variant sends to every open client, as broadcast does.
sendToPlayer_All(cs, socks, playerId, message, now) ==
    ForEachOpen(cs, socks, NoId, encodeServerMessage(message, now))
sendToPlayer(cs, socks, playerId, message, now) ==
    IF ClientsHas(cs, playerId) /\ IsOpen(socks, playerId)
    THEN <<Attempt(playerId, encodeServerMessage(message, now), TRUE)>>
    ELSE <<>>

\* the send calls of a handler, run in order.  fault is the sink (if any)
\* whose send throws: inside try/catch the call is skipped, elsewhere the
\* exception ends the handler
RECURSIVE Deliver(_, _)
Deliver(attempts, fault) ==
    IF attempts = <<>> THEN [sent |-> <<>>, threw |-> FALSE]
    ELSE LET a == Head(attempts) IN
         IF fault = Some(a.to)
         THEN IF a.caught
              THEN Deliver(Tail(attempts), fault)
              ELSE [sent |-> <<>>, threw |-> TRUE]
         ELSE LET rest == Deliver(Tail(attempts), fault)
              IN [sent |-> <<[to |-> a.to, data |-> a.data]>> \o rest.sent,
                  threw |-> rest.threw]

\* ------------------------------------------------------ server history
\* inbox: per connection the type of the first frame it was sent ("none"
\* before any) and how many id_assignment frames it was sent (counted to 2)
NoInbox == [first |-> "none", assignments |-> 0]
EmptyInboxes == [id \in Sessions |-> NoInbox]

RECURSIVE Inboxed(_, _)
Inboxed(boxes, frames) ==
    IF frames = <<>> THEN boxes
    ELSE LET f == Head(frames)
             box == boxes[f.to]
             new == [first |-> IF box.first = "none" THEN f.data.type ELSE box.first,
                     assignments |->
                         IF f.data.type = "id_assignment" /\ box.assignments < 2
                         THEN box.assignments + 1 ELSE box.assignments]
         IN Inboxed([boxes EXCEPT ![f.to] = new], Tail(frames))

\* event: the latest handler.  id is the connection it belongs to; decoded
\* is "ok" / "failed" for a message event ("none" otherwise); broadcast is
\* the encoded message broadcast() was called with, if it was called; fault
\* is the sink whose send threw while the handler ran, if one did
Event(handler, id, decoded, bcast, fault) ==
    [handler |-> handler, id |-> id, decoded |-> decoded, broadcast |-> bcast,
     fault |-> fault]
NoEvent == Event("start", NoId, "none", None, None)

\* the sink whose send threw: fault, when the handler called send on it
Threw(attempts, fault) ==
    IF \E k \in 1..Len(attempts) : fault = Some(attempts[k].to) THEN fault ELSE None

\* a handler ends: its send calls have run; an exception that no try/catch
\* took ends the process
Handled(handler, id, decoded, bcast, attempts, fault) ==
    LET out == Deliver(attempts, fault) IN
    /\ sent' = out.sent
    /\ crashed' = out.threw
    /\ inbox' = Inboxed(inbox, out.sent)
    /\ event' = Event(handler, id, decoded, bcast, Threw(attempts, fault))
    /\ UNCHANGED codec

\* --------------------------------------------------- wss.on('connection')
\* server.ts:76-80  the two frames the handler sends to the new socket: its
\* id, then the state of every player
Welcome_StateFirst(playerId, allPlayerStates, now1, now2) ==
    <<Attempt(playerId,
              encodeServerMessage(
                  ServerMessage("state", None, Some(allPlayerStates), None), now2),
              FALSE),
      Attempt(playerId,
              encodeServerMessage(
                  ServerMessage("id_assignment", Some(playerId), None, None), now1),
              FALSE)>>
Welcome(playerId, allPlayerStates, now1, now2) ==
    <<Attempt(playerId,
              encodeServerMessage(
                  ServerMessage("id_assignment", Some(playerId), None, None), now1),
              FALSE),
      Attempt(playerId,
              encodeServerMessage(
                  ServerMessage("state", None, Some(allPlayerStates), None), now2),
              FALSE)>>

\* server.ts:85-89  clients.forEach((client, clientId) => if (clientId !==
\* playerId && client.readyState === OPEN) client.send(...)).  The variant
\* sends to every open client, as an older version of the server did.
NotifyOthers_All(cs, socks, playerId, data) == ForEachOpen(cs, socks, NoId, data)
NotifyOthers(cs, socks, playerId, data) == ForEachOpen(cs, socks, playerId, data)

\* server.ts:74  game.addPlayer(playerId, Math.random() * 50, 1, 0)
connection(limit, x, now1, now2, now3, fault) ==
    /\ ~crashed
    /\ Cardinality(DOMAIN sockets) < limit
    /\ LET playerId == SessionPool[Cardinality(DOMAIN sockets) + 1] IN
       /\ sockets' = [k \in DOMAIN sockets \cup {playerId} |->
                         IF k = playerId THEN Socket ELSE sockets[k]]
       /\ clients' = ClientsSet(clients, playerId)
       /\ addPlayer(playerId, Some(x), Some(1), Some(0))
       /\ Handled("connection", playerId, "none", None,
              Welcome(playerId, getAllPlayerStates', now1, now2)
              \o NotifyOthers(clients', sockets', playerId,
                              encodeServerMessage(
                                  ServerMessage("connected", Some(playerId), None, None),
                                  now3)),
              fault)

\* ------------------------------------------------------- ws.on('message')
\* a socket delivers events until its close event has been emitted
Listening(id) == id \in DOMAIN sockets /\ ~sockets[id].close

\* server.ts:106  x, z and rot are all !== undefined
MoveComplete(moveMsg) ==
    moveMsg.x /= None /\ moveMsg.z /= None /\ moveMsg.rot /= None

\* server.ts:114  setNameMsg.name && typeof setNameMsg.name === 'string'
NameFieldOk(setNameMsg) ==
    /\ setNameMsg.name /= None
    /\ setNameMsg.name[1].typeof = "string"
    /\ NameFormatOk(setNameMsg.name[1].value)

\* server.ts:116-125  the reply to a name request that passed the format check
NameReply(nameSet) ==
    IF nameSet
    THEN ServerMessage("name_accepted", None, None, None)
    ELSE ServerMessage("name_rejected", None, None, Some("Name already taken"))

\* server.ts:107, 115  the id the handler passes to the store: the playerId
\* of its own connection (a frame carries no id)
Owner_First(playerId) == IF clients /= <<>> THEN clients[1] ELSE playerId
Owner(playerId) == playerId

\* server.ts:96-99 and 137-139  a frame that is not binary or does not decode:
\* a warning, nothing else.  The variant answers the sender.
drop_Reply(playerId, now, fault) ==
    /\ UNCHANGED <<store, last, prev>>
    /\ Handled("message", playerId, "failed", None,
               sendToPlayer(clients, sockets, playerId,
                            ServerMessage("name_rejected", None, None,
                                          Some("Invalid name format")),
                            now),
               fault)
drop(playerId, now, fault) ==
    /\ UNCHANGED <<store, last, prev>>
    /\ Handled("message", playerId, "failed", None, <<>>, fault)

message(playerId, data, now, fault) ==
    /\ ~crashed
    /\ Listening(playerId)
    /\ UNCHANGED <<clients, sockets>>
    /\ LET decodedMessage == IF data.shape = "text" THEN None
                             ELSE decodeClientMessage(data, now)
       IN IF decodedMessage = None
          THEN drop(playerId, now, fault)
          ELSE LET msg == decodedMessage[1] IN
               IF msg.type = "move" /\ MoveComplete(msg)
               THEN /\ updatePlayerPosition(Owner(playerId), msg.x[1].value,
                                            msg.z[1].value, Some(msg.rot[1].value))
                    /\ Handled("message", playerId, "ok", None, <<>>, fault)
               ELSE IF msg.type = "set_name" /\ NameFieldOk(msg)
               THEN /\ setPlayerName(Owner(playerId), msg.name[1].value)
                    /\ Handled("message", playerId, "ok", None,
                               sendToPlayer(clients, sockets, playerId,
                                            NameReply(last'.ok), now),
                               fault)
               ELSE IF msg.type = "set_name"
               THEN /\ UNCHANGED <<store, last, prev>>
                    /\ Handled("message", playerId, "ok", None,
                               sendToPlayer(clients, sockets, playerId,
                                   ServerMessage("name_rejected", None, None,
                                                 Some("Invalid name format")),
                                   now),
                               fault)
               ELSE /\ UNCHANGED <<store, last, prev>>
                    /\ Handled("message", playerId, "ok", None, <<>>, fault)

\* ------------------------------------------- ws.on('close'), ws.on('error')
\* server.ts:144-147 and 152-155  the body the two handlers share.  The
\* variant forgets game.removePlayer.
unregister_KeepPlayer(handler, playerId, now, fault) ==
    /\ clients' = ClientsDelete(clients, playerId)
    /\ UNCHANGED <<store, last, prev>>
    /\ LET disconnected == ServerMessage("disconnected", Some(playerId), None, None)
       IN Handled(handler, playerId, "none",
                  Some(encodeServerMessage(disconnected, now)),
                  broadcast(clients', sockets', disconnected, now), fault)
unregister(handler, playerId, now, fault) ==
    /\ clients' = ClientsDelete(clients, playerId)
    /\ removePlayer(playerId)
    /\ LET disconnected == ServerMessage("disconnected", Some(playerId), None, None)
       IN Handled(handler, playerId, "none",
                  Some(encodeServerMessage(disconnected, now)),
                  broadcast(clients', sockets', disconnected, now), fault)

\* the socket's close event: emitted once, the socket is closed by then
close(playerId, now, fault) ==
    /\ ~crashed
    /\ Listening(playerId)
    /\ sockets' = [sockets EXCEPT ![playerId].readyState = "CLOSED",
                                  ![playerId].close = TRUE]
    /\ unregister("close", playerId, now, fault)

\* the socket's error event: the socket is no longer open, its close event
\* is still to come
error(playerId, now, fault) ==
    /\ ~crashed
    /\ Listening(playerId)
    /\ ~sockets[playerId].error
    /\ sockets' = [sockets EXCEPT ![playerId].readyState = "CLOSED",
                                  ![playerId].error = TRUE]
    /\ unregister("error", playerId, now, fault)

\* the channel goes down (readyState CLOSING / CLOSED) before any handler of
\* the socket has run
closing(playerId) ==
    /\ ~crashed
    /\ IsOpen(sockets, playerId)
    /\ sockets' = [sockets EXCEPT ![playerId].readyState = "CLOSED"]
    /\ UNCHANGED <<store, last, prev, clients>>
    /\ Handled("closing", playerId, "none", None, <<>>, None)

\* ------------------------------------------------- setInterval tick
\* server.ts:164-170  game.update(), then the full state to everyone unless
\* there is no player (server.ts:167  allPlayerStates.length > 0)
HasPlayers_Always(allPlayerStates) == TRUE
HasPlayers_Never(allPlayerStates) == FALSE
HasPlayers(allPlayerStates) == Len(allPlayerStates) > 0

tick(now, fault) ==
    /\ ~crashed
    /\ UNCHANGED <<clients, sockets>>
    /\ update
    /\ LET allPlayerStates == getAllPlayerStates'
           state == ServerMessage("state", None, Some(allPlayerStates), None)
       IN IF HasPlayers(allPlayerStates)
          THEN Handled("tick", NoId, "none", Some(encodeServerMessage(state, now)),
                       broadcast(clients, sockets, state, now), fault)
          ELSE Handled("tick", NoId, "none", None, <<>>, fault)

\* game.ts:33-37  the store's own timer, running beside the server's
startUpdateLoop ==
    /\ ~crashed
    /\ UNCHANGED <<clients, sockets>>
    /\ update
    /\ Handled("startUpdateLoop", NoId, "none", None, <<>>, None)

\* ------------------------------------------- the codec functions alone
\* a call of one exported function of part_000: its arguments before it has
\* run, its arguments and its result afterwards
NoCodec == [fn |-> "none", done |-> FALSE]

\* part_000:98-130  decodeClientMessage(data) while getTimecode() is now
decodeCall ==
    /\ codec.fn = "decodeClientMessage" /\ ~codec.done
    /\ codec' = [codec EXCEPT !.done = TRUE,
                              !.result = decodeClientMessage(codec.data, codec.now)]
    /\ UNCHANGED <<store, last, prev, server>>

\* part_000:85-96  encodeServerMessage(message) while getTimecode() is now
encodeCall ==
    /\ codec.fn = "encodeServerMessage" /\ ~codec.done
    /\ codec' = [codec EXCEPT !.done = TRUE,
                              !.result = encodeServerMessage(codec.message, codec.now)]
    /\ UNCHANGED <<store, last, prev, server>>

\* part_000:31-43  timecodeDistance(newer, older), and the same call with
\* the arguments exchanged
distanceCall ==
    /\ codec.fn = "timecodeDistance" /\ ~codec.done
    /\ codec' = [codec EXCEPT !.done = TRUE,
                              !.result = timecodeDistance(codec.newer, codec.older),
                              !.reverse = timecodeDistance(codec.older, codec.newer)]
    /\ UNCHANGED <<store, last, prev, server>>

\* part_000:50-52  getMessageAge(timecode) when the process has run for
\* elapsed milliseconds
ageCall ==
    /\ codec.fn = "getMessageAge" /\ ~codec.done
    /\ codec' = [codec EXCEPT !.done = TRUE,
                              !.result = getMessageAge(codec.timecode, codec.elapsed)]
    /\ UNCHANGED <<store, last, prev, server>>

\* ------------------------------------------------------------------- Init
Init ==
    /\ players = <<>>
    /\ playerNames = {}
    /\ lastKnownPositions = EmptyPositions
    /\ last = NoCall
    /\ prev = NoPrev
    /\ clients = <<>>
    /\ sockets = [k \in {} |-> Socket]
    /\ crashed = FALSE
    /\ sent = <<>>
    /\ inbox = EmptyInboxes
    /\ event = NoEvent
    /\ codec = NoCodec

\* ------------------------------------------------------------------- Next
\* one call of a method that adds, removes, moves or scans players.
\* addPlayer's optional arguments are drawn from IXs, IZs, IRs and
\* updatePlayerPosition's arguments from Xs, Zs and (optional) ORs
Moves(IXs, IZs, IRs, Xs, Zs, ORs) ==
    \/ \E id \in Ids, ix \in IXs, iz \in IZs, ir \in IRs :
          addPlayer(id, ix, iz, ir) /\ UNCHANGED <<server, codec>>
    \/ \E id \in Ids : removePlayer(id) /\ UNCHANGED <<server, codec>>
    \/ \E id \in Ids, x \in Xs, z \in Zs, r \in ORs :
          updatePlayerPosition(id, x, z, r) /\ UNCHANGED <<server, codec>>
    \/ getUpdatedPlayerStates /\ UNCHANGED <<server, codec>>
    \/ update /\ UNCHANGED <<server, codec>>

Naming(Ns) == \E id \in Ids, n \in Ns : setPlayerName(id, n) /\ UNCHANGED <<server, codec>>

\* Spec: every method; every name; players start anywhere on the x axis and
\* move along it
Next ==
    \/ Moves(Opt(Coords), {Some(0)}, {None}, Coords, {0}, {None})
    \/ Naming(Names)
Spec == Init /\ [][Next]_vars

\* SpecPos: the methods that touch positions; every coordinate and rotation,
\* given or omitted
NextPos ==
    Moves(Opt(PosCoords), Opt(PosCoords), Opt(Rots), PosCoords, PosCoords, Opt(Rots))
SpecPos == Init /\ [][NextPos]_vars

\* inbound frames: one that is not binary, one that does not parse, one that
\* parses to no message, moves (complete, or lacking a field), name requests
\* (well formed, empty, not a string, lacking the name) and a message of
\* unknown type
Move(x, z, rot) == Frame("object", "move", x, z, rot, None, None)
MoveFrames ==
    {Move(Some(Num(0)), Some(Num(1)), Some(Num(0))),
     Move(Some(Num(1)), Some(Num(2)), Some(Num(90)))}
PartFrames ==
    {Move(None, Some(Num(2)), Some(Num(90))),
     Move(Some(Num(1)), None, Some(Num(90))),
     Move(Some(Num(1)), Some(Num(2)), None)}
NameFrames ==
    {Frame("object", "set_name", None, None, None, n, None) :
        n \in {None, Some(Num(7)), Some(Str("")), Some(Str("a"))}}
OtherFrames ==
    {Frame(shape, "", None, None, None, None, None) :
        shape \in {"text", "garbage", "scalar"}}
    \cup {Frame("object", "chat", None, None, None, None, None)}
Frames == MoveFrames \cup PartFrames \cup NameFrames \cup OtherFrames

\* one event of the server: at most limit connections are accepted, frames
\* are drawn from Fs, and a send to a sink in Faults may throw.  The encodes
\* of one handler read the same clock value.
Serve(limit, Fs, Faults) ==
    \/ \E now \in Times, fault \in Faults :
          connection(limit, 0, now, now, now, fault)
    \/ \E id \in Sessions, data \in Fs, now \in Times, fault \in Faults :
          message(id, data, now, fault)
    \/ \E id \in Sessions, now \in Times, fault \in Faults : close(id, now, fault)
    \/ \E id \in Sessions, now \in Times, fault \in Faults : error(id, now, fault)
    \/ \E id \in Sessions : closing(id)
    \/ \E now \in Times, fault \in Faults : tick(now, fault)
    \/ startUpdateLoop

\* SpecServer: every handler and every frame, no send throws
NextServer == Serve(MaxSessions, Frames, {None})
SpecServer == Init /\ [][NextServer]_vars

\* SpecFanout: one more connection; the frames are the complete moves and
\* one that does not parse; no send throws
FanoutFrames == MoveFrames \cup {Frame("garbage", "", None, None, None, None, None)}
NextFanout == Serve(MaxFanout, FanoutFrames, {None})
SpecFanout == Init /\ [][NextFanout]_vars

\* SpecFault: MaxSessions connections, the frames of SpecFanout, and calls of
\* ws.send that may throw
NextFault == Serve(MaxSessions, FanoutFrames, Opt(Sessions))
SpecFault == Init /\ [][NextFault]_vars

\* SpecTick: MaxSessions connections, the frames of SpecFanout, and a timer
\* that keeps firing.  setInterval (server.ts:164) runs the tick again and
\* again for as long as the process lives, and no handler blocks, so a tick
\* that stays possible happens.
Tick == \E now \in Times : tick(now, None)
NextTick == Serve(MaxSessions, FanoutFrames, {None})
SpecTick == Init /\ [][NextTick]_vars /\ WF_vars(Tick)

\* SpecCodec: one call of one codec function.  The arguments are drawn in
\* the initial state, the call computes the result.
\* timecodes next to 0, to half the wrap and to the wrap
Timecodes ==
    (0..MaxSkew)
    \cup ((TIMECODE_WRAP \div 2 - MaxSkew)..(TIMECODE_WRAP \div 2 + MaxSkew))
    \cup ((TIMECODE_WRAP - 1 - MaxSkew)..(TIMECODE_WRAP - 1))
\* Date.now() - SERVER_START_TIME: the clock has wrapped up to MaxWraps times
Elapsed == {tc + k * TIMECODE_WRAP : tc \in Timecodes, k \in 0..MaxWraps}
\* frames whose fields have the wrong type, and a move that carries its t
IllTypedFrames ==
    {Move(Some(Str("1")), Some(Num(2)), Some(Num(90))),
     Move(Some(Num(1)), Some(Num(2)), Some(Str("east"))),
     Frame("object", "move", Some(Num(1)), Some(Num(2)), Some(Num(90)), None, Some(0))}
CodecFrames == Frames \cup IllTypedFrames
\* server messages with a t the caller supplies, or none
SuppliedTimecodes == Opt({0, 1, TIMECODE_WRAP - 1})
CodecMessages ==
    {[m EXCEPT !.t = t] :
        m \in {ServerMessage("connected", Some("p1"), None, None),
               ServerMessage("state", None, Some(<<>>), None),
               ServerMessage("name_rejected", None, None, Some("Name already taken"))},
        t \in SuppliedTimecodes}

InitCodec ==
    /\ players = <<>>
    /\ playerNames = {}
    /\ lastKnownPositions = EmptyPositions
    /\ last = NoCall
    /\ prev = NoPrev
    /\ clients = <<>>
    /\ sockets = [k \in {} |-> Socket]
    /\ crashed = FALSE
    /\ sent = <<>>
    /\ inbox = EmptyInboxes
    /\ event = NoEvent
    /\ \/ \E data \in CodecFrames, now \in Times :
             codec = [fn |-> "decodeClientMessage", data |-> data, now |-> now,
                      done |-> FALSE, result |-> None]
       \/ \E m \in CodecMessages, now \in Times :
             codec = [fn |-> "encodeServerMessage", message |-> m, now |-> now,
                      done |-> FALSE, result |-> None]
       \/ \E newer \in Timecodes, older \in Timecodes, wraps \in -MaxWraps..MaxWraps :
             \* wraps: how often the clock wrapped between the reading of
             \* older and the reading of newer
             codec = [fn |-> "timecodeDistance", newer |-> newer, older |-> older,
                      wraps |-> wraps, done |-> FALSE, result |-> None,
                      reverse |-> None]
       \/ \E timecode \in Timecodes, elapsed \in Elapsed :
             codec = [fn |-> "getMessageAge", timecode |-> timecode,
                      elapsed |-> elapsed, done |-> FALSE, result |-> None]
NextCodec == decodeCall \/ encodeCall \/ distanceCall \/ ageCall
SpecCodec == InitCodec /\ [][NextCodec]_vars

\* ================================================================ claims
Live(id) == MapHas(players, id)
IsSetName(c) == c.op = "setPlayerName"
IsRemove(c) == c.op = "removePlayer"
IsScan(c) == c.op = "getUpdatedPlayerStates"

\* C1: in every reachable state no two distinct live players hold the same
\* name (a player that was never named holds none).
C1_NamesUnique ==
    \A i, j \in 1..Len(players) :
        (i /= j /\ players[i].name /= None) => players[i].name /= players[j].name

\* two live players hold two names, and a request for a held name was just
\* turned down
C1_Witness ==
    /\ Len(players) = 2
    /\ players[1].name /= None /\ players[2].name /= None
    /\ IsSetName(last) /\ last.live /\ last.claimed /\ ~last.ok

\* C2: two distinct live players call setPlayerName one after the other with
\* the same name, which was not in the claimed-name set before the first
\* call: exactly one of the two calls returns true.
C2_ExactlyOneAccepted ==
    ( /\ IsSetName(prev) /\ IsSetName(last)
      /\ prev.id /= last.id /\ prev.name = last.name
      /\ prev.live /\ last.live /\ ~prev.claimed )
    => (prev.ok /= last.ok)

C2_Witness ==
    /\ IsSetName(prev) /\ IsSetName(last)
    /\ prev.id /= last.id /\ prev.name = last.name
    /\ prev.live /\ last.live /\ ~prev.claimed
    /\ prev.ok /\ ~last.ok

\* C3: a name request (the set_name handler's format check, then
\* setPlayerName) is rejected exactly when the name is claimed by a different
\* entity, or the id is not live, or the name is not a non-empty string; a
\* live entity asking for the name it already holds is accepted.
C3_ClaimedByOther(c) == c.claimed /\ c.held /= c.name

C3_RejectedExactlyWhen ==
    IsSetName(last) =>
        ( ~NameAccepted(last.name[1], last.ok)
          <=> ( \/ C3_ClaimedByOther(last)
                \/ ~last.live
                \/ ~NameFormatOk(last.name[1]) ) )

\* C4: removePlayer(id) on a live player returns true and removePlayer(id)
\* right after it returns false; the name the removed player held can be
\* claimed by a live player right after the removal.
C4_RemoveTwiceAndNameFreed ==
    /\ (IsRemove(prev) /\ IsRemove(last) /\ prev.id = last.id /\ prev.live)
       => (prev.ok /\ ~last.ok)
    /\ (IsRemove(prev) /\ prev.live /\ prev.held /= None
        /\ IsSetName(last) /\ last.live /\ last.name = prev.held)
       => last.ok

\* C5: once setPlayerName(id, n2) is accepted for a player that held n1 /= n2,
\* the player holds n2, and setPlayerName(other, n1) by a different live
\* player right after it is accepted.
C5_OldNameReleased ==
    /\ (IsSetName(last) /\ last.ok) => MapGet(players, last.id).name = last.name
    /\ (IsSetName(prev) /\ prev.ok /\ prev.held /= None /\ prev.held /= prev.name
        /\ IsSetName(last) /\ last.live /\ last.id /= prev.id
        /\ last.name = prev.held)
       => last.ok

\* C6: addPlayer with an id that is already live returns that player's
\* current state and changes nothing: no second entry, the same position and
\* name, the same last-broadcast snapshot.
C6_AddIdempotent ==
    [][ (last'.op = "addPlayer" /\ Live(last'.id))
        => /\ last'.states = <<getState(MapGet(players, last'.id))>>
           /\ players' = players
           /\ playerNames' = playerNames
           /\ lastKnownPositions' = lastKnownPositions ]_vars

\* addPlayer was called for a live player that has a name and has moved since
\* its snapshot was taken
C6_Witness ==
    /\ last.op = "addPlayer" /\ last.live
    /\ LET player == MapGet(players, last.id)
       IN /\ Truthy(player.name)
          /\ player.x /= lastKnownPositions[last.id].x

\* C7: getUpdatedPlayerStates called twice in a row returns the empty list
\* the second time.
C7_SecondScanEmpty ==
    (IsScan(prev) /\ IsScan(last)) => last.states = <<>>

\* the first of the two calls returned players
C7_Witness ==
    IsScan(prev) /\ prev.count > 0 /\ IsScan(last) /\ last.states = <<>>

\* C8: getUpdatedPlayerStates returns exactly the live players whose x, z or
\* rot differs from their last-broadcast snapshot, each once and with its
\* current values, and leaves the snapshot of every live player equal to the
\* player's x, z and rot.
C8_Position(player) == [x |-> player.x, z |-> player.z, rot |-> player.rot]

C8_ScanExact ==
    [][ IsScan(last')
        => LET result == last'.states
               moved == {i \in 1..Len(players) :
                            lastKnownPositions[players[i].id] /= C8_Position(players[i])}
           IN /\ {result[k].id : k \in 1..Len(result)} = {players[i].id : i \in moved}
              /\ Len(result) = Cardinality(moved)
              /\ \A k \in 1..Len(result) :
                     result[k] = getState(MapGet(players, result[k].id))
              /\ players' = players
              /\ DOMAIN lastKnownPositions' = MapKeys(players)
              /\ \A i \in 1..Len(players) :
                     lastKnownPositions'[players[i].id] = C8_Position(players[i]) ]_vars

\* of two live players the scan returned one
C8_Witness ==
    IsScan(last) /\ Len(players) = 2 /\ Len(last.states) = 1

\* C9: updatePlayerPosition and setPlayerName with an id that is not live
\* return null / false and leave players, playerNames and
\* lastKnownPositions as they were.
C9_UnknownIdNoOp ==
    [][ (last'.op \in {"updatePlayerPosition", "setPlayerName"} /\ ~Live(last'.id))
        => /\ ~last'.ok
           /\ last'.states = <<>>
           /\ players' = players
           /\ playerNames' = playerNames
           /\ lastKnownPositions' = lastKnownPositions ]_vars

\* a move for an id that is not live, while another player is live and named
C9_Witness ==
    /\ last.op = "updatePlayerPosition" /\ ~last.live /\ ~last.ok
    /\ Len(players) = 1 /\ playerNames /= {}

\* C10: updatePlayerPosition on a live player sets x and z to the arguments,
\* sets rot to the argument or keeps it when the argument is omitted, and
\* leaves y alone; every live player's y is 1.
C10_MoveSetsXZRot ==
    [][ /\ \A i \in 1..Len(players') : players'[i].y = 1
        /\ (last'.op = "updatePlayerPosition" /\ Live(last'.id))
           => LET old == MapGet(players, last'.id)
                  new == MapGet(players', last'.id)
              IN /\ new.x = last'.x[1]
                 /\ new.z = last'.z[1]
                 /\ new.rot = (IF last'.rot = None THEN old.rot ELSE last'.rot[1])
                 /\ new.y = old.y
                 /\ last'.states = <<getState(new)>> ]_vars

\* a move without rot for a player whose rot is not the default
C10_Witness ==
    /\ last.op = "updatePlayerPosition" /\ last.live /\ last.rot = None
    /\ MapGet(players, last.id).rot = 90
    /\ MapGet(players, last.id).x = 1

\* ------------------------------------------------------- server claims
IsMessage(e) == e.handler = "message"
Registered(id) == ClientsHas(clients, id)
SentTo(frames, id) == SelectSeq(frames, LAMBDA f : f.to = id)
Recipients(frames) == {frames[k].to : k \in 1..Len(frames)}

\* C11: handling a message received on session S leaves the set (and order)
\* of live players as it was and leaves every player other than S's exactly
\* as it was: position, rotation and name.
C11_OnlyOwnEntity ==
    [][ IsMessage(event')
        => /\ Len(players') = Len(players)
           /\ \A i \in 1..Len(players) :
                  /\ players'[i].id = players[i].id
                  /\ players[i].id /= event'.id => players'[i] = players[i] ]_vars

\* the second session moved and took a name while the first one, elsewhere
\* and unnamed, is live
C11_Witness ==
    /\ IsMessage(event) /\ event.id = "p2" /\ last.op = "setPlayerName" /\ last.ok
    /\ Len(players) = 2
    /\ players[1].id = "p1" /\ players[1].x = 0 /\ players[1].name = None
    /\ players[2].id = "p2" /\ players[2].x = 1

\* C12: the connection handler sends the new session exactly two frames:
\* id_assignment with its own player id, then state whose players list is the
\* state of every live player, the new one among them, each once; and every
\* connection made so far got id_assignment as its first frame and got it
\* exactly once, while a session not yet connected got nothing.
C12_Welcome ==
    [][ /\ event'.handler = "connection"
           => LET mine == SentTo(sent', event'.id) IN
              /\ Len(mine) = 2
              /\ mine[1].data.type = "id_assignment"
              /\ mine[1].data.playerId = Some(event'.id)
              /\ mine[2].data.type = "state"
              /\ mine[2].data.players = Some(getAllPlayerStates')
              /\ Cardinality({i \in 1..Len(players') : players'[i].id = event'.id}) = 1
              /\ Cardinality(MapKeys(players')) = Len(players')
        /\ \A id \in Sessions :
              inbox'[id] = IF id \in DOMAIN sockets'
                           THEN [first |-> "id_assignment", assignments |-> 1]
                           ELSE NoInbox ]_vars

\* the second connection is made while the first player, moved and named, is
\* live, and later ticks have sent it more frames
C12_Witness ==
    /\ event.handler = "tick" /\ Len(SentTo(sent, "p2")) = 1
    /\ Len(players) = 2 /\ players[1].x = 1 /\ players[1].name /= None
    /\ inbox["p2"].assignments = 1

\* C13: a connection step sends connected{playerId: new id} once to every
\* session that is registered, is not the new one and has an open channel,
\* and to nobody else; no other step sends a connected frame.
C13_Notes(frames) == SelectSeq(frames, LAMBDA f : f.data.type = "connected")

C13_ConnectedToOthers ==
    [][ LET notes == C13_Notes(sent')
            others == {id \in Sessions : /\ ClientsHas(clients', id)
                                         /\ id /= event'.id
                                         /\ IsOpen(sockets', id)}
        IN IF event'.handler = "connection"
           THEN /\ Recipients(notes) = others
                /\ Len(notes) = Cardinality(others)
                /\ event'.id \notin Recipients(notes)
                /\ \A k \in 1..Len(notes) : notes[k].data.playerId = Some(event'.id)
           ELSE notes = <<>> ]_vars

\* the third connection is made while the first session is registered with
\* its channel down and the second is open: one connected frame, to the second
C13_Witness ==
    /\ event.handler = "connection" /\ event.id = "p3"
    /\ clients = <<"p1", "p2", "p3">>
    /\ ~IsOpen(sockets, "p1") /\ IsOpen(sockets, "p2")
    /\ Recipients(C13_Notes(sent)) = {"p2"}

\* C14: a close step and an error step alike take the session out of
\* clients, take its player out of the store (other players and their
\* snapshots untouched), and send exactly one disconnected{playerId: its id}
\* frame to each remaining registered session with an open channel, in Map
\* order, all with the same timecode, and nothing to anyone else.
C14_Expected(id, now) ==
    LET data == [type |-> "disconnected", playerId |-> Some(id), players |-> None,
                 reason |-> None, t |-> now]
        open == SelectSeq(clients', LAMBDA c : IsOpen(sockets', c))
    IN [k \in 1..Len(open) |-> [to |-> open[k], data |-> data]]

C14_Unregister ==
    [][ event'.handler \in {"close", "error"}
        => LET id == event'.id IN
           /\ clients' = SelectSeq(clients, LAMBDA c : c /= id)
           /\ players' = SelectSeq(players, LAMBDA q : q.id /= id)
           /\ DOMAIN lastKnownPositions' = DOMAIN lastKnownPositions \ {id}
           /\ \A k \in DOMAIN lastKnownPositions' :
                  lastKnownPositions'[k] = lastKnownPositions[k]
           /\ \E now \in Times : sent' = C14_Expected(id, now)
           /\ id \notin Recipients(sent') ]_vars

\* the first session ends by an error while the second is registered with
\* its channel down and the third is open: one frame, to the third
C14_Witness ==
    /\ event.handler = "error" /\ event.id = "p1"
    /\ clients = <<"p2", "p3">> /\ MapKeys(players) = {"p2", "p3"}
    /\ ~IsOpen(sockets, "p2") /\ IsOpen(sockets, "p3")
    /\ Recipients(sent) = {"p3"}

\* C15: every state frame sent (by a tick, or to a new connection) lists
\* each player that is live at that moment exactly once, with its current
\* state, and lists no player of a session whose close or error handler has
\* run.
C15_Ended(id) == id \in DOMAIN sockets /\ (sockets[id].close \/ sockets[id].error)

C15_StateListsLivePlayers ==
    [][ \A k \in 1..Len(sent') :
            sent'[k].data.type = "state"
            => LET list == sent'[k].data.players[1]
                   ids == {list[i].id : i \in 1..Len(list)}
               IN /\ Cardinality(ids) = Len(list)
                  /\ ids = MapKeys(players')
                  /\ \A i \in 1..Len(list) : list[i] = getState(MapGet(players', list[i].id))
                  /\ \A id \in Sessions : C15_Ended(id)' => id \notin ids ]_vars

\* a tick after the first session has ended and the third player has moved:
\* the state frame lists the second and the third player
C15_Witness ==
    /\ event.handler = "tick" /\ sent /= <<>>
    /\ C15_Ended("p1")
    /\ MapKeys(players) = {"p2", "p3"}
    /\ MapGet(players, "p3").x = 1

\* C16: a tick calls broadcast exactly when the list of player states is not
\* empty, and no state frame sent to any session, by a tick or by the
\* connection handler, has an empty players list.
C16_NoEmptyState ==
    [][ /\ event'.handler = "tick"
           => IF players' = <<>>
              THEN event'.broadcast = None /\ sent' = <<>>
              ELSE /\ event'.broadcast /= None
                   /\ event'.broadcast[1].type = "state"
                   /\ event'.broadcast[1].players[1] /= <<>>
        /\ \A k \in 1..Len(sent') :
               sent'[k].data.type = "state" => sent'[k].data.players[1] /= <<>> ]_vars

\* a tick with no player left, after sessions have come and gone
C16_Witness ==
    /\ event.handler = "tick" /\ players = <<>> /\ event.broadcast = None
    /\ DOMAIN sockets = {"p1", "p2"}

\* C17: when a move{x, z, rot} of session B has been applied, then, unless B's
\* player is removed or moves elsewhere first, a later tick hands broadcast a
\* state message that lists B's player with exactly that x, z and rot and
\* every live player with its current state.
C17_Applied(b, mv) ==
    /\ IsMessage(event) /\ event.id = b
    /\ last.op = "updatePlayerPosition" /\ last.id = b /\ last.ok
    /\ last.x = Some(mv.x[1].value) /\ last.z = Some(mv.z[1].value)
    /\ last.rot = Some(mv.rot[1].value)

C17_At(b, mv) ==
    /\ Live(b)
    /\ LET player == MapGet(players, b)
       IN /\ player.x = mv.x[1].value /\ player.z = mv.z[1].value
          /\ player.rot = mv.rot[1].value

C17_Shown(b, mv) ==
    /\ event.handler = "tick" /\ event.broadcast /= None
    /\ event.broadcast[1].type = "state"
    /\ LET list == event.broadcast[1].players[1]
       IN /\ list = getAllPlayerStates
          /\ \E i \in 1..Len(list) :
                 /\ list[i].id = b
                 /\ list[i].x = mv.x[1].value /\ list[i].z = mv.z[1].value
                 /\ list[i].rot = mv.rot[1].value

C17_MoveReachesTick ==
    \A b \in Sessions : \A mv \in MoveFrames :
        C17_Applied(b, mv) ~> (C17_Shown(b, mv) \/ ~C17_At(b, mv))

\* a tick shows the second player where its move put it, beside the first
\* player, which has not moved
C17_Witness ==
    /\ C17_Shown("p2", Move(Some(Num(1)), Some(Num(2)), Some(Num(90))))
    /\ Live("p1") /\ MapGet(players, "p1").x = 0 /\ MapGet(players, "p1").rot = 0

\* C18: when a handler calls broadcast (a tick with players, close, error),
\* the frames sent are the one encoded message, once to each registered
\* session whose channel is open, in Map order, and none to a registered
\* session whose channel is not open; no exception is raised, and the
\* sessions with a closed channel stay in the session map.
C18_BroadcastToOpen ==
    [][ event'.broadcast /= None
        => LET open == SelectSeq(clients', LAMBDA c : sockets'[c].readyState = "OPEN")
               down == {c \in Sessions : /\ ClientsHas(clients', c)
                                         /\ sockets'[c].readyState /= "OPEN"}
           IN /\ sent' = [k \in 1..Len(open) |->
                             [to |-> open[k], data |-> event'.broadcast[1]]]
              /\ Recipients(sent') \cap down = {}
              /\ ~crashed'
              /\ clients' = IF event'.handler = "tick" THEN clients
                             ELSE SelectSeq(clients, LAMBDA c : c /= event'.id) ]_vars

\* a tick while the first session is registered with its channel down and
\* the other two are open: two frames
C18_Witness ==
    /\ event.handler = "tick" /\ event.broadcast /= None
    /\ clients = <<"p1", "p2", "p3">>
    /\ sockets["p1"].readyState = "CLOSED"
    /\ sockets["p2"].readyState = "OPEN" /\ sockets["p3"].readyState = "OPEN"
    /\ Len(sent) = 2

\* C19: when the send to one sink throws during a broadcast, every other
\* registered session with an open channel is still sent the message, and
\* the process lives on (so later ticks run).
C19_SendFailureContained ==
    [][ (event'.broadcast /= None /\ event'.fault /= None)
        => /\ Recipients(sent') =
                  {c \in Sessions : /\ ClientsHas(clients', c)
                                    /\ sockets'[c].readyState = "OPEN"
                                    /\ Some(c) /= event'.fault}
           /\ ~crashed' ]_vars

\* C20: handling a frame that does not decode (or is not binary) leaves
\* players, playerNames, lastKnownPositions, the session map and the sockets
\* as they were and sends nothing; the session still listens; and a complete
\* move arriving next on the same session, its player live, is applied.
C20_DecodeFailureDropped ==
    [][ /\ event'.decoded = "failed"
           => /\ players' = players
              /\ playerNames' = playerNames
              /\ lastKnownPositions' = lastKnownPositions
              /\ clients' = clients
              /\ sockets' = sockets
              /\ sent' = <<>>
              /\ ~crashed'
              /\ event'.id \in DOMAIN sockets' /\ ~sockets'[event'.id].close
        /\ ( /\ event.decoded = "failed"
             /\ IsMessage(event') /\ event'.id = event.id /\ event'.decoded = "ok"
             /\ last'.op = "updatePlayerPosition" /\ last'.id = event.id
             /\ Live(event.id) )
           => /\ last'.ok
              /\ MapGet(players', event.id).x = last'.x[1]
              /\ MapGet(players', event.id).z = last'.z[1]
              /\ MapGet(players', event.id).rot = last'.rot[1] ]_vars

\* the second session, registered, live and named, has just sent a frame
\* that did not decode
C20_Witness ==
    /\ event.decoded = "failed" /\ event.id = "p2"
    /\ Registered("p2") /\ Live("p2") /\ MapGet(players, "p2").name /= None
    /\ IsOpen(sockets, "p2")
    /\ sent = <<>>

\* a frame that is a message of the protocol: a move with numeric x, z and
\* rot, or a set_name with a string name
C21_IsNumber(field) == field /= None /\ field[1].typeof = "number"
C21_IsString(field) == field /= None /\ field[1].typeof = "string"
C21_Valid(data) ==
    /\ data.shape = "object"
    /\ \/ /\ data.type = "move"
          /\ C21_IsNumber(data.x) /\ C21_IsNumber(data.z) /\ C21_IsNumber(data.rot)
       \/ /\ data.type = "set_name"
          /\ C21_IsString(data.name)

\* C21: decodeClientMessage returns a message only for a frame whose type is
\* move or set_name and whose required fields are present with their declared
\* types (x, z, rot numbers; name a string); for any other frame it returns
\* null
C21_DecodeValidates ==
    (codec.fn = "decodeClientMessage" /\ codec.done)
        => (codec.result /= None => C21_Valid(codec.data))

\* C22: when the handler of session S, registered and with its channel open,
\* handles a set_name frame, it sends exactly one frame, to S: name_accepted
\* when setPlayerName was called and returned true, name_rejected otherwise;
\* no other session is sent anything
C22_Accepted(data) ==
    /\ C21_IsString(data.name)
    /\ data.name[1].value /= ""
    /\ last'.op = "setPlayerName"
    /\ last'.ok
C22_ExactlyOneReply ==
    [][\A id \in Sessions, data \in NameFrames, now \in Times :
          (/\ message(id, data, now, None)
           /\ id \in DOMAIN sockets
           /\ sockets[id].readyState = "OPEN"
           /\ \E k \in 1..Len(clients) : clients[k] = id)
          => /\ Len(sent') = 1
             /\ sent'[1].to = id
             /\ sent'[1].data.type = IF C22_Accepted(data) THEN "name_accepted"
                                     ELSE "name_rejected"]_vars
\* a second session asked for the name the first one holds: it alone was
\* sent one name_rejected, while the first session is open
C22_Witness ==
    /\ event.handler = "message"
    /\ event.id = "p2"
    /\ Len(sent) = 1
    /\ sent[1].to = "p2"
    /\ sent[1].data.type = "name_rejected"
    /\ sent[1].data.reason = Some("Name already taken")
    /\ "p1" \in DOMAIN sockets
    /\ sockets["p1"].readyState = "OPEN"
    /\ \E k \in 1..Len(clients) : clients[k] = "p1"

\* the time that really passed between the reading of older and the reading
\* of newer: the clock wrapped codec.wraps times in between
C23_Elapsed == codec.newer - codec.older + codec.wraps * TIMECODE_WRAP
C23_Called == codec.fn = "timecodeDistance" /\ codec.done

\* C23 as stated: for timecodes a, b read at most 2^23 ms apart,
\* timecodeDistance(a, b) = -timecodeDistance(b, a) and the result is the
\* time that really passed, also across a wrap
C23_DistanceWithinHalf ==
    (C23_Called /\ Abs(C23_Elapsed) <= TIMECODE_WRAP \div 2)
        => /\ codec.result = -codec.reverse
           /\ codec.result = C23_Elapsed

\* C23 amended: for timecodes read at most 2^23 ms apart the two results are
\* opposite, and for timecodes read less than 2^23 ms apart the result is the
\* time that really passed, also across a wrap
C23_DistanceBelowHalf ==
    /\ (C23_Called /\ Abs(C23_Elapsed) <= TIMECODE_WRAP \div 2)
          => codec.result = -codec.reverse
    /\ (C23_Called /\ Abs(C23_Elapsed) < TIMECODE_WRAP \div 2)
          => codec.result = C23_Elapsed
\* timecodeDistance(5, 2^24 - 3) = 8: the clock wrapped once in between
C23_Witness ==
    /\ C23_Called
    /\ codec.newer = 5
    /\ codec.older = TIMECODE_WRAP - 3
    /\ codec.wraps = 1
    /\ codec.result = 8
    /\ codec.reverse = -8

\* C24: timecodeDistance(newer, older) lies in [-2^23, 2^23] and differs from
\* newer - older by a multiple of 2^24; getMessageAge(t) lies in [0, 2^23] and
\* is, up to its sign and a multiple of 2^24, the time from t to now
C24_Congruent(a, b) == (a - b) % TIMECODE_WRAP = 0
C24_DistanceInRange ==
    /\ C23_Called
          => /\ codec.result >= -(TIMECODE_WRAP \div 2)
             /\ codec.result <= TIMECODE_WRAP \div 2
             /\ C24_Congruent(codec.result, codec.newer - codec.older)
    /\ (codec.fn = "getMessageAge" /\ codec.done)
          => /\ codec.result >= 0
             /\ codec.result <= TIMECODE_WRAP \div 2
             /\ \/ C24_Congruent(codec.result, codec.elapsed - codec.timecode)
                \/ C24_Congruent(-codec.result, codec.elapsed - codec.timecode)
\* the age of a message stamped 3 ms before the clock wrapped, asked for 5 ms
\* after it wrapped
C24_Witness ==
    /\ codec.fn = "getMessageAge"
    /\ codec.done
    /\ codec.timecode = TIMECODE_WRAP - 3
    /\ codec.elapsed = TIMECODE_WRAP + 5
    /\ codec.result = 8

\* C25: the message encodeServerMessage produces carries the t the caller
\* supplied, whatever its value (0 included), and the current timecode only
\* when the caller supplied none
C25_SuppliedTimecodeKept ==
    (codec.fn = "encodeServerMessage" /\ codec.done)
        => codec.result.t = IF codec.message.t /= None THEN codec.message.t[1]
                            ELSE codec.now

\* C26: between handlers the registered sessions are the live players: an
\* id is a key of clients exactly when it is a key of players
C26_SessionsAreLivePlayers ==
    {clients[k] : k \in 1..Len(clients)} = {players[i].id : i \in 1..Len(players)}
\* the first of two sessions has gone: the second is the only registered
\* session and the only player
C26_Witness ==
    /\ event.handler \in {"close", "error"}
    /\ event.id = "p1"
    /\ clients = <<"p2">>
    /\ {players[i].id : i \in 1..Len(players)} = {"p2"}

\* C27: after any sequence of calls, lastKnownPositions has an entry for
\* every live player and for no other id
C27_OneSnapshotPerLivePlayer ==
    DOMAIN lastKnownPositions = {players[i].id : i \in 1..Len(players)}
\* of two players the first has been removed: the only entry left is the
\* second player's
C27_Witness ==
    /\ last.op = "removePlayer"
    /\ last.id = "p1"
    /\ last.ok
    /\ {players[i].id : i \in 1..Len(players)} = {"p2"}
    /\ DOMAIN lastKnownPositions = {"p2"}

\* C28: the set of claimed names holds a name (any string, the empty one
\* included) exactly when some live player holds it
C28_NoNameLeak ==
    playerNames = {players[i].name[1] :
                      i \in {k \in 1..Len(players) : players[k].name /= None}}

\* the sessions the frames tell that session id has disconnected
C29_Told(frames, id) ==
    {frames[k].to : k \in {j \in 1..Len(frames) :
                              /\ frames[j].data.type = "disconnected"
                              /\ frames[j].data.playerId = Some(id)}}

\* C29: no session is sent a second disconnected frame for the same id: when
\* the transport reports error and then close for one session, the close
\* handler tells no session that the error handler has already told
C29_DisconnectedOnce ==
    [][(/\ event.handler = "error"
        /\ event'.handler = "close"
        /\ event'.id = event.id)
       => C29_Told(sent, event.id) \cap C29_Told(sent', event.id) = {}]_vars

\* C30: a setPlayerName that returns false changes nothing in the store: the
\* players (their names and positions), the claimed names and the
\* last-broadcast snapshots are what they were
C30_RejectedChangesNothing ==
    [][(last'.op = "setPlayerName" /\ ~last'.ok)
       => /\ players' = players
          /\ playerNames' = playerNames
          /\ lastKnownPositions' = lastKnownPositions]_vars
\* a player holding b asked for a, which another player holds, and was
\* refused: it still holds b and both names are claimed
C30_Witness ==
    /\ last.op = "setPlayerName"
    /\ ~last.ok
    /\ last.live
    /\ last.name = Some("a")
    /\ last.held = Some("b")
    /\ \E i \in 1..Len(players) : players[i].id = last.id /\ players[i].name = Some("b")
    /\ playerNames = {"a", "b"}

====
